---------------------------- MODULE Spec2Model ----------------------------
(***************************************************************************)
(* Model of the fragment-wrapping Workers of bamboounderwear/              *)
(* branddesignsystem: src/src/index.ts (the handler with security headers  *)
(* and the generated /components/_index.json manifest), its variant with   *)
(* the legacy-manifest fallback (src/unnamed/part_002) and the older       *)
(* src/src/worker.js (process-wide componentCache, legacy manifest only).  *)
(*                                                                         *)
(* A string is a sequence of one-character strings.  Fixed pieces of HTML  *)
(* and fixed messages, whose inside no operation of the program looks at,  *)
(* are single elements of such a sequence.                                 *)
(***************************************************************************)
EXTENDS Integers, Sequences, FiniteSets, TLC

VARIABLES
  manifest,        \* Asset Store: what GET /components/_index.json yields
  legacy,          \* __STATIC_CONTENT_MANIFEST of env / globalThis
  present,         \* Asset Store: the paths that hold a file
  indexBody,       \* Asset Store: content of /components/index.html
  ran,             \* the source file whose code acted last ("" before any did)
  reqPath,         \* url.pathname of the last request
  reqStore,        \* how the Asset Store answered the last request: <<mode, xfo>>
  components,      \* the handler's local `components` (the Component Index it used)
  route,           \* the handler's local `route` / `maybe`
  calls,           \* Asset Store fetches issued for the last request, in order,
                   \* each with the status answered (0: the fetch threw)
  response,        \* the response returned for the last request
  componentCache,  \* worker.js: module-level `let componentCache`
  nreq,            \* requests handled by this process
  manifestFetches, \* fetches of the generated manifest by this process
  fragment,        \* injectComponentList: argument `fragment`
  listHtml,        \* injectComponentList: argument `listHtml`
  injected,        \* injectComponentList: returned string
  res,             \* withSecurityHeaders: argument `res`
  inflight         \* worker.js: the requests being handled, each with its
                   \* position in fetch and its locals

vars == <<manifest, legacy, present, indexBody, ran, reqPath, reqStore, components, route, calls,
          response, componentCache, nreq, manifestFetches, fragment, listHtml,
          injected, res, inflight>>

---------------------------------------------------------------------------
(* Bounds of the model *)

\* longest request path, counted in pieces of PathPieces after the leading "/"
MaxPathPieces == 2
\* longest slug array of the generated manifest / longest key list of the legacy one
MaxManifest == 2
\* requests handled by one process
MaxRequests == 2
\* longest fragment and longest listing given to injectComponentList
MaxText == 3

---------------------------------------------------------------------------
(* Strings *)

NoValue == <<"<none>">>

Str_index == <<"i", "n", "d", "e", "x">>
Str_components == <<"c", "o", "m", "p", "o", "n", "e", "n", "t", "s", "/">>
Str_components_dir == <<"/">> \o Str_components
Str_html == <<".", "h", "t", "m", "l">>
Str_json == <<".", "j", "s", "o", "n">>

LowerLetters ==
  <<"a","b","c","d","e","f","g","h","i","j","k","l","m",
    "n","o","p","q","r","s","t","u","v","w","x","y","z">>
UpperLetters ==
  <<"A","B","C","D","E","F","G","H","I","J","K","L","M",
    "N","O","P","Q","R","S","T","U","V","W","X","Y","Z">>
Digits == <<"0","1","2","3","4","5","6","7","8","9">>

Range(s) == {s[i] : i \in 1..Len(s)}

LetterIndex(c) ==
  IF \E i \in 1..26 : LowerLetters[i] = c \/ UpperLetters[i] = c
  THEN CHOOSE i \in 1..26 : LowerLetters[i] = c \/ UpperLetters[i] = c
  ELSE 0

AlnumChars == Range(LowerLetters) \cup Range(UpperLetters) \cup Range(Digits)
IsAlnum(c) == c \in AlnumChars

\* String.prototype.toUpperCase on one character
ToUpperCase(c) == IF c \in Range(LowerLetters) THEN UpperLetters[LetterIndex(c)] ELSE c

Slice(s, from, to) == IF from > to THEN <<>> ELSE SubSeq(s, from, to)

StartsWith(s, p) == Len(p) <= Len(s) /\ SubSeq(s, 1, Len(p)) = p
EndsWith(s, p) == Len(p) <= Len(s) /\ SubSeq(s, Len(s) - Len(p) + 1, Len(s)) = p
\* positions at which p occurs in s
Occurrences(s, p) ==
  {i \in 1..(Len(s) - Len(p) + 1) : SubSeq(s, i, i + Len(p) - 1) = p}
Includes(s, p) == Occurrences(s, p) # {}
\* String.prototype.indexOf, 1-based; 0 when absent
IndexOf(s, p) ==
  IF Includes(s, p)
  THEN CHOOSE i \in Occurrences(s, p) : \A j \in Occurrences(s, p) : i <= j
  ELSE 0

RECURSIVE Concat(_)
\* the elements of a sequence of strings, joined with nothing between them
Concat(ss) == IF ss = <<>> THEN <<>> ELSE Head(ss) \o Concat(Tail(ss))

RECURSIVE Join(_, _)
\* Array.prototype.join
Join(ss, sep) ==
  IF ss = <<>> THEN <<>>
  ELSE IF Len(ss) = 1 THEN ss[1]
  ELSE ss[1] \o sep \o Join(Tail(ss), sep)

RECURSIVE Split(_, _)
\* String.prototype.split on a one-character separator
Split(s, c) ==
  IF \E i \in 1..Len(s) : s[i] = c
  THEN LET i == CHOOSE k \in 1..Len(s) : s[k] = c /\ \A j \in 1..(k - 1) : s[j] # c
       IN  <<Slice(s, 1, i - 1)>> \o Split(Slice(s, i + 1, Len(s)), c)
  ELSE <<s>>


---------------------------------------------------------------------------
(* String.prototype.localeCompare: the root collation at its default       *)
(* strength.  Strings are compared by their primary keys first (white      *)
(* space, then punctuation, then digits, then letters without their case); *)
(* strings alike in those are compared by case, lower case first.          *)

\* the grave accent, U+0060
GraveAccent == "u0060"

Punctuation == <<" ", "_", "-", "u2013", ".", "/", "&", GraveAccent, "'", "$">>

PrimaryKey(c) ==
  IF LetterIndex(c) > 0 THEN 200 + LetterIndex(c)
  ELSE IF \E i \in 1..Len(Digits) : Digits[i] = c
       THEN 100 + (CHOOSE i \in 1..Len(Digits) : Digits[i] = c)
  ELSE IF \E i \in 1..Len(Punctuation) : Punctuation[i] = c
       THEN CHOOSE i \in 1..Len(Punctuation) : Punctuation[i] = c
  ELSE 99

CaseKey(c) == IF c \in Range(UpperLetters) THEN 1 ELSE 0

RECURSIVE CompareKeys(_, _)
\* lexicographic comparison of two sequences of numbers: -1, 0 or 1
CompareKeys(a, b) ==
  IF a = <<>> /\ b = <<>> THEN 0
  ELSE IF a = <<>> THEN -1
  ELSE IF b = <<>> THEN 1
  ELSE IF Head(a) < Head(b) THEN -1
  ELSE IF Head(a) > Head(b) THEN 1
  ELSE CompareKeys(Tail(a), Tail(b))

localeCompare(a, b) ==
  LET pa == [i \in 1..Len(a) |-> PrimaryKey(a[i])]
      pb == [i \in 1..Len(b) |-> PrimaryKey(b[i])]
      ca == [i \in 1..Len(a) |-> CaseKey(a[i])]
      cb == [i \in 1..Len(b) |-> CaseKey(b[i])]
  IN  IF CompareKeys(pa, pb) # 0 THEN CompareKeys(pa, pb) ELSE CompareKeys(ca, cb)

---------------------------------------------------------------------------
(* src/src/index.ts: routing and rendering *)

Str_IndexTitle ==
  <<"B","D","S"," ","B","o","o","t","s","t","r","a","p"," ",
    "T","o","k","e","n","s"," ","u2013"," ","O","v","e","r","v","i","e","w">>

\* normalizePath that strips nothing
normalizePath_Keep(p) == p

normalizePath(p) ==
  IF EndsWith(p, <<"/">>) /\ p # <<"/">> THEN Slice(p, 1, Len(p) - 1) ELSE p

\* /\.[a-zA-Z0-9]+$/.test(path)
hasFileExtension(path) ==
  \E i \in 1..(Len(path) - 1) :
    /\ path[i] = "."
    /\ \A j \in (i + 1)..Len(path) : IsAlnum(path[j])

Capitalize(part) ==
  IF part = <<>> THEN <<>> ELSE <<ToUpperCase(part[1])>> \o Slice(part, 2, Len(part))

slugToTitle(slug) ==
  LET parts == Split(slug, "-")
  IN  Join([i \in 1..Len(parts) |-> Capitalize(parts[i])], <<" ">>)

\* toMeta with the fragment looked for at the root of the Asset Store
toMeta_RootFile(slug) ==
  [slug  |-> slug,
   path  |-> IF slug = Str_index THEN <<"/">> ELSE <<"/">> \o slug,
   title |-> IF slug = Str_index THEN Str_IndexTitle ELSE slugToTitle(slug),
   file  |-> <<"/">> \o slug \o Str_html]

toMeta(slug) ==
  [slug  |-> slug,
   path  |-> IF slug = Str_index THEN <<"/">> ELSE <<"/">> \o slug,
   title |-> IF slug = Str_index THEN Str_IndexTitle ELSE slugToTitle(slug),
   file  |-> Str_components_dir \o slug \o Str_html]

RECURSIVE InsertByTitle(_, _)
\* c put into the title-ordered sequence cs behind every entry that does not
\* compare greater than it
InsertByTitle(cs, c) ==
  IF cs = <<>> THEN <<c>>
  ELSE IF localeCompare(Head(cs).title, c.title) <= 0
       THEN <<Head(cs)>> \o InsertByTitle(Tail(cs), c)
  ELSE <<c>> \o cs

RECURSIVE SortByTitle(_)
\* Array.prototype.sort((a, b) => a.title.localeCompare(b.title)): a stable sort
SortByTitle(cs) ==
  IF cs = <<>> THEN <<>>
  ELSE InsertByTitle(SortByTitle(SubSeq(cs, 1, Len(cs) - 1)), cs[Len(cs)])

\* Array.prototype.find(c => c.slug === slug) ?? toMeta(slug)
FindRoute(cs, slug) ==
  IF \E i \in 1..Len(cs) : cs[i].slug = slug
  THEN cs[CHOOSE i \in 1..Len(cs) :
            cs[i].slug = slug /\ \A j \in 1..(i - 1) : cs[j].slug # slug]
  ELSE toMeta(slug)


Html_doctype == "<!doctype html>"
Html_title_open == "<title>"
Html_title_close == "</title>"
Html_stylesheet == "<link rel=\"stylesheet\" href=\"/brand-tokens.css\" />"

\* renderHtml({ title, body }): the template literal, its fixed pieces as elements
renderHtml(title, body) ==
  <<Html_doctype, "\n<html lang=\"en\">\n<head>\n  <meta charset/>\n  <meta viewport/>\n  ",
    Html_title_open>>
  \o title
  \o <<Html_title_close, "\n  <link bootstrap.min.css />\n  ", Html_stylesheet,
       "\n</head>\n<body class=\"container my-4\">\n">>
  \o body
  \o <<"\n\n  <script bootstrap.bundle.min.js></script>\n</body>\n</html>">>

Html_href_open == "</div>\n  </div>\n  <a class=\"btn\" href=\""
Html_href_close == "\">View</a>\n</li>"

\* one <li> of the listing
ListRow(c) ==
  <<"\n<li class=\"list-group-item\">\n  <div>\n    <div class=\"fw-semibold\">">>
  \o c.title
  \o <<"</div>\n    <div class=\"text-muted small\">">>
  \o c.path
  \o <<Html_href_open>>
  \o c.path
  \o <<Html_href_close>>

NotIndex_KeepAll(c) == TRUE

\* the filter callback of renderComponentList
NotIndex(c) == c.slug # Str_index

\* the entries renderComponentList lists: components.filter(...).sort(...)
ListedComponents(cs) == SortByTitle(SelectSeq(cs, NotIndex))

renderComponentList(cs) ==
  LET listed == ListedComponents(cs)
      list == Concat([i \in 1..Len(listed) |-> ListRow(listed[i])])
  IN  IF list = <<>>
      THEN <<"<div class=\"alert alert-info\" role=\"status\">No components listed.</div>">>
      ELSE <<"<div class=\"card\"><div class=\"card-body\"><ul class=\"list-group\">">>
           \o list \o <<"</ul></div></div>">>

Marker == "<!-- COMPONENT_LIST -->"

RECURSIVE GetSubstitution(_, _, _, _)
\* What String.prototype.replace(string, string) puts in place of the match:
\* in the replacement, $$ stands for $, $& for the match, $ and a grave
\* accent for the text before the match, $ and an apostrophe for the text
\* after it.  A pattern that is a string
\* has no capture groups, so $1..$99 and $< stay as they are.
GetSubstitution(repl, matched, before, after) ==
  IF repl = <<>> THEN <<>>
  ELSE IF repl[1] = "$" /\ Len(repl) >= 2 /\ repl[2] \in {"$", "&", GraveAccent, "'"}
       THEN (CASE repl[2] = "$" -> <<"$">>
               [] repl[2] = "&" -> matched
               [] repl[2] = GraveAccent -> before
               [] repl[2] = "'" -> after)
            \o GetSubstitution(Slice(repl, 3, Len(repl)), matched, before, after)
  ELSE <<repl[1]>> \o GetSubstitution(Tail(repl), matched, before, after)

\* String.prototype.replace(pattern, replacement), both strings: the first
\* occurrence only
StringReplace(s, pattern, repl) ==
  LET at == IndexOf(s, pattern)
      before == Slice(s, 1, at - 1)
      after == Slice(s, at + Len(pattern), Len(s))
  IN  IF at = 0 THEN s
      ELSE before \o GetSubstitution(repl, pattern, before, after) \o after

injectComponentList(frag, list) ==
  IF Includes(frag, <<Marker>>)
  THEN StringReplace(frag, <<Marker>>, list)
  ELSE frag \o <<"\n">> \o list


---------------------------------------------------------------------------
(* Responses and the Asset Store *)

Csp ==
  "default-src 'self'; script-src 'self' https://cdn.jsdelivr.net; style-src 'self' 'unsafe-inline' https://cdn.jsdelivr.net; img-src 'self' https: data:; font-src 'self' https://cdn.jsdelivr.net; connect-src 'self'; object-src 'none'; base-uri 'self'; frame-ancestors 'none'; upgrade-insecure-requests"

SecurityHeaderNames ==
  {"Content-Security-Policy", "Referrer-Policy", "X-Content-Type-Options",
   "X-Frame-Options", "Permissions-Policy", "Strict-Transport-Security"}

HeaderNames == SecurityHeaderNames \cup {"Content-Type", "ETag"}

\* a header the response does not carry
Absent == ""

NoHeaders == [h \in HeaderNames |-> Absent]

\* new Response(body, { status, headers: { "Content-Type": contentType } })
NewResponse(body, status, contentType) ==
  [status |-> status, statusText |-> "",
   headers |-> [NoHeaders EXCEPT !["Content-Type"] = contentType],
   body |-> body]

NoResponse == [status |-> 0, statusText |-> "", headers |-> NoHeaders, body |-> <<>>]

\* withSecurityHeaders with has-then-set: a header the response already carries stays
withSecurityHeaders_KeepExisting(r) ==
  [status |-> r.status, statusText |-> r.statusText, body |-> r.body,
   headers |->
     [h \in HeaderNames |->
        IF r.headers[h] # Absent THEN r.headers[h]
        ELSE CASE h = "Content-Security-Policy" -> Csp
               [] h = "Referrer-Policy" -> "no-referrer"
               [] h = "X-Content-Type-Options" -> "nosniff"
               [] h = "X-Frame-Options" -> "DENY"
               [] h = "Permissions-Policy" -> "geolocation=(), microphone=(), camera=()"
               [] h = "Strict-Transport-Security" ->
                    "max-age=15552000; includeSubDomains; preload"
               [] OTHER -> Absent]]

\* withSecurityHeaders building its Response without the statusText
withSecurityHeaders_NoStatusText(r) ==
  [status |-> r.status, statusText |-> "", body |-> r.body,
   headers |->
     [r.headers EXCEPT
        !["Content-Security-Policy"] = Csp,
        !["Referrer-Policy"] = "no-referrer",
        !["X-Content-Type-Options"] = "nosniff",
        !["X-Frame-Options"] = "DENY",
        !["Permissions-Policy"] = "geolocation=(), microphone=(), camera=()",
        !["Strict-Transport-Security"] = "max-age=15552000; includeSubDomains; preload"]]

withSecurityHeaders(r) ==
  [status |-> r.status, statusText |-> r.statusText, body |-> r.body,
   headers |->
     [r.headers EXCEPT
        !["Content-Security-Policy"] = Csp,
        !["Referrer-Policy"] = "no-referrer",
        !["X-Content-Type-Options"] = "nosniff",
        !["X-Frame-Options"] = "DENY",
        !["Permissions-Policy"] = "geolocation=(), microphone=(), camera=()",
        !["Strict-Transport-Security"] = "max-age=15552000; includeSubDomains; preload"]]

IndexFile == Str_components_dir \o Str_index \o Str_html
ManifestFile == Str_components_dir \o <<"_">> \o Str_index \o Str_json

\* what the Asset Store holds at a path
FileBody(path) ==
  IF path = IndexFile THEN indexBody ELSE <<"[content of ">> \o path \o <<"]">>

\* how the Asset Store answers one fetch: as its contents say, with a
\* rejected promise, or with an error status of its own
StoreModes == {"normal", "reject", "error"}
\* X-Frame-Options the Asset Store may put on its own responses
StoreXfo == {Absent, "SAMEORIGIN"}
\* the answers of the Asset Store to one fetch: <<mode, xfo>>
StoreAnswers ==
  {<<mode, xfo>> \in StoreModes \X StoreXfo : mode = "normal" \/ xfo = Absent}

\* env.ASSETS.fetch(request) for the path of the request
AssetFetch(path, mode, xfo) ==
  LET hdrs == [NoHeaders EXCEPT !["ETag"] = "\"etag\"", !["X-Frame-Options"] = xfo]
  IN  CASE mode = "reject" ->
             [thrown |-> TRUE, ok |-> FALSE, status |-> 0, statusText |-> "",
              headers |-> NoHeaders, body |-> <<>>]
        [] mode = "error" ->
             [thrown |-> FALSE, ok |-> FALSE, status |-> 500,
              statusText |-> "Internal Server Error", headers |-> hdrs,
              body |-> <<"asset store error">>]
        [] mode = "normal" /\ path \in present ->
             [thrown |-> FALSE, ok |-> TRUE, status |-> 200, statusText |-> "OK",
              headers |-> hdrs, body |-> FileBody(path)]
        [] OTHER ->
             [thrown |-> FALSE, ok |-> FALSE, status |-> 404,
              statusText |-> "Not Found", headers |-> hdrs, body |-> <<"asset not found">>]

\* the Response part of what the Asset Store answered
AsResponse(r) ==
  [status |-> r.status, statusText |-> r.statusText, headers |-> r.headers,
   body |-> r.body]

---------------------------------------------------------------------------
(* src/src/index.ts: discoverComponents, serveComponent, fetch *)

\* The generated manifest as the Asset Store serves it.  kind is
\*   "reject"    the fetch throws
\*   "notok"     the response is not ok (the file is missing)
\*   "badjson"   res.json() throws
\*   "notarray"  the JSON is no array: slugs.map is not a function
\*   "nonstring" the JSON is an array holding a non-string: slug.split is not a function
\*   "slugs"     the JSON is an array of strings, `slugs`
ManifestKinds == {"reject", "notok", "badjson", "notarray", "nonstring", "slugs"}

MapToMeta(slugs) == [i \in 1..Len(slugs) |-> toMeta(slugs[i])]

\* discoverComponents returning no entry when the manifest is of no use
discoverComponents_NoFallback(m) ==
  IF m.kind = "slugs"
  THEN SortByTitle(MapToMeta(m.slugs))
  ELSE <<>>

discoverComponents(m) ==
  IF m.kind = "slugs"
  THEN SortByTitle(MapToMeta(m.slugs))
  ELSE <<toMeta(Str_index)>>

NotFoundBody(file) ==
  <<"Component not found. Unable to load ">> \o file
  \o <<".\nMake sure it exists at public">> \o file \o <<" and re-deploy.">>

\* serveComponent handing on what the Asset Store answered when the fragment is missing
serveComponent_AssetAnswer(rt, cs, fragmentRes) ==
  IF ~fragmentRes.ok
  THEN [status |-> fragmentRes.status, statusText |-> fragmentRes.statusText,
        headers |-> fragmentRes.headers, body |-> fragmentRes.body]
  ELSE LET frag == IF rt.slug = Str_index
                   THEN injectComponentList(fragmentRes.body, renderComponentList(cs))
                   ELSE fragmentRes.body
       IN  NewResponse(renderHtml(rt.title, frag), 200, "text/html; charset=utf-8")

\* serveComponent once the fragment fetch has answered with fragmentRes
serveComponent(rt, cs, fragmentRes) ==
  IF ~fragmentRes.ok
  THEN NewResponse(NotFoundBody(rt.file), 404, "text/plain; charset=utf-8")
  ELSE LET frag == IF rt.slug = Str_index
                   THEN injectComponentList(fragmentRes.body, renderComponentList(cs))
                   ELSE fragmentRes.body
       IN  NewResponse(renderHtml(rt.title, frag), 200, "text/html; charset=utf-8")

ErrorMessage == <<"fetch failed">>

\* the catch block of fetch
InternalError(message) ==
  withSecurityHeaders(
    NewResponse(<<"Internal Error\n\n">> \o message, 500, "text/plain; charset=utf-8"))

\* no component was routed to
NoRoute == [slug |-> <<>>, path |-> <<>>, title |-> <<>>, file |-> <<>>]

SlugOfPath(path) == IF path = <<"/">> THEN Str_index ELSE Slice(path, 2, Len(path))

\* one entry of `calls`
Call(path, r) == [path |-> path, status |-> IF r.thrown THEN 0 ELSE r.status]

\* the status with which the Asset Store answers the fetch of the manifest
ManifestStatus(m) ==
  CASE m.kind = "reject" -> 0
    [] m.kind = "notok" -> 404
    [] OTHER -> 200

\* fetch loading the fragment before it asks for the manifest
RouteComponent_FragmentFirst(path, mode, xfo) ==
  LET slug == SlugOfPath(path)
      cs == discoverComponents(manifest)
      maybe == FindRoute(cs, slug)
      fragmentRes == AssetFetch(maybe.file, mode, xfo)
  IN  [components |-> cs, route |-> maybe,
       calls |-> <<Call(maybe.file, fragmentRes),
                   [path |-> ManifestFile, status |-> ManifestStatus(manifest)]>>,
       response |->
         IF fragmentRes.thrown THEN InternalError(ErrorMessage)
         ELSE withSecurityHeaders(serveComponent(maybe, cs, fragmentRes))]

\* fetch, lines 26-32: the path has no file extension
RouteComponent(path, mode, xfo) ==
  LET slug == SlugOfPath(path)
      cs == discoverComponents(manifest)
      maybe == FindRoute(cs, slug)
      fragmentRes == AssetFetch(maybe.file, mode, xfo)
  IN  [components |-> cs, route |-> maybe,
       calls |-> <<[path |-> ManifestFile, status |-> ManifestStatus(manifest)],
                   Call(maybe.file, fragmentRes)>>,
       response |->
         IF fragmentRes.thrown THEN InternalError(ErrorMessage)
         ELSE withSecurityHeaders(serveComponent(maybe, cs, fragmentRes))]

\* fetch, lines 34-36: the request goes to the Asset Store as it came
Passthrough(p, mode, xfo) ==
  LET asset == AssetFetch(p, mode, xfo)
  IN  [components |-> <<>>, route |-> NoRoute,
       calls |-> <<Call(p, asset)>>,
       response |->
         IF asset.thrown THEN InternalError(ErrorMessage)
         ELSE withSecurityHeaders(AsResponse(asset))]

\* export default { fetch }: the request for pathname p; mode and xfo say how
\* the Asset Store answers the fragment or passthrough fetch
HandleRequest(p, mode, xfo) ==
  LET path == normalizePath(p)
  IN  IF ~hasFileExtension(path)
      THEN RouteComponent(path, mode, xfo)
      ELSE Passthrough(p, mode, xfo)

---------------------------------------------------------------------------
(* src/src/worker.js: the older Worker.  Its Component Index comes from the   *)
(* legacy manifest env.__STATIC_CONTENT_MANIFEST, an object keyed by asset    *)
(* paths, and is kept in the module-level componentCache.  It sets no         *)
(* security headers and catches nothing.                                      *)

\* The legacy manifest.  kind is
\*   "absent"   no __STATIC_CONTENT_MANIFEST
\*   "invalid"  a string JSON.parse throws on
\*   "keys"     the JSON of an object; `keys` is Object.keys of it, in order
LegacyKinds == {"absent", "invalid", "keys"}

\* componentCache before the first discoverComponents
Unset == [set |-> FALSE, value |-> <<>>, writes |-> 0]

\* readManifest, as Object.keys of what it returns
readManifestKeys(env) == IF env.kind = "keys" THEN env.keys ELSE <<>>

\* the filter callback of discoverComponents
IsComponentKey(key) ==
  /\ StartsWith(key, Str_components)
  /\ EndsWith(key, Str_html)
  /\ ~Includes(key, <<"/", ".">>)

\* file.replace(/^components\//, "").replace(/\.html$/, "")
SlugOfKey(key) ==
  LET rest == IF StartsWith(key, Str_components)
              THEN Slice(key, Len(Str_components) + 1, Len(key)) ELSE key
  IN  IF EndsWith(rest, Str_html) THEN Slice(rest, 1, Len(rest) - Len(Str_html)) ELSE rest

\* the map callback of discoverComponents
MetaOfKey(key) ==
  LET slug == SlugOfKey(key)
  IN  [slug  |-> slug,
       path  |-> IF slug = Str_index THEN <<"/">> ELSE <<"/">> \o slug,
       title |-> IF slug = Str_index THEN Str_IndexTitle ELSE slugToTitle(slug),
       file  |-> Str_components_dir \o slug \o Str_html]

\* discoverComponents past the cache check: lines 12-31
BuildComponents_worker(env) ==
  LET keys == SelectSeq(readManifestKeys(env), IsComponentKey)
  IN  SortByTitle([i \in 1..Len(keys) |-> MetaOfKey(keys[i])])

\* discoverComponents(env): the value returned; any array, the empty one
\* too, is truthy and so is returned from the cache
discoverComponents_worker(cache, env) ==
  IF cache.set THEN cache.value ELSE BuildComponents_worker(env)

\* componentCache after a call of discoverComponents that builds the index
\* again and assigns it whether or not the cache holds one
cacheAfterDiscover_EveryCall(cache, env) ==
  [set |-> TRUE, value |-> BuildComponents_worker(env), writes |-> cache.writes + 1]

\* componentCache after discoverComponents(env): assigned at line 33 when the
\* check of line 10 found nothing; `writes` counts the assignments
cacheAfterDiscover(cache, env) ==
  IF cache.set THEN cache
  ELSE [set |-> TRUE, value |-> BuildComponents_worker(env), writes |-> cache.writes + 1]

renderHtml_worker(title, body) ==
  <<Html_doctype, "\n<html lang=\"en\">\n<head>\n  <meta charset/>\n  <meta viewport/>\n  ",
    Html_title_open>>
  \o title
  \o <<Html_title_close, "\n  <link bootstrap.min.css />\n  ", Html_stylesheet,
       "\n</head>\n<body>\n">>
  \o body
  \o <<"\n\n  <script bootstrap.bundle.min.js></script>\n</body>\n</html>">>

Html_href_open_worker == "</div>\n        </div>\n        <a class=\"btn\" href=\""
Html_href_close_worker == "\">View</a>\n      </li>"

ListRow_worker(c) ==
  <<"\n      <li class=\"list-group-item\">\n        <div>\n          <div class=\"fw-semibold\">">>
  \o c.title
  \o <<"</div>\n          <div class=\"text-muted small\">">>
  \o c.path
  \o <<Html_href_open_worker>>
  \o c.path
  \o <<Html_href_close_worker>>

renderComponentList_worker(cs) ==
  IF Len(cs) = 0
  THEN <<"<div class=\"alert alert-info\" role=\"status\">No components found yet.</div>">>
  ELSE LET sorted == SortByTitle(cs)
       IN  <<"\n    <div class=\"card\">\n      <div class=\"card-body\">\n        <ul class=\"list-group\">">>
           \o Concat([i \in 1..Len(sorted) |-> ListRow_worker(sorted[i])])
           \o <<"</ul>\n      </div>\n    </div>">>

\* injectComponentList of worker.js, lines 163-169
injectComponentList_worker(frag, list) ==
  IF Includes(frag, <<Marker>>)
  THEN StringReplace(frag, <<Marker>>, list)
  ELSE frag \o <<"\n">> \o list

NotFoundBody_worker(file) ==
  <<"Component not found. Unable to load ">> \o file
  \o <<". Make sure it exists in public/components and rerun wrangler dev.">>

\* the filter callback of serveComponent, line 192
NotIndex_worker(c) == c.slug # Str_index

\* serveComponent once the fragment fetch has answered with assetResponse
serveComponent_worker(rt, cs, assetResponse) ==
  IF ~assetResponse.ok
  THEN NewResponse(NotFoundBody_worker(rt.file), 404, "text/plain; charset=utf-8")
  ELSE LET frag ==
             IF rt.slug = Str_index
             THEN injectComponentList_worker(
                    assetResponse.body,
                    renderComponentList_worker(SelectSeq(cs, NotIndex_worker)))
             ELSE assetResponse.body
       IN  NewResponse(renderHtml_worker(rt.title, frag), 200, "text/html; charset=utf-8")

\* the handler threw: the runtime, not the Worker, answers
Uncaught == [status |-> 0, statusText |-> "uncaught exception", headers |-> NoHeaders,
             body |-> <<>>]

\* COMPONENTS.find(c => c.path === path || (c.slug === "index" && path === "/"))
RouteMatches(cs, path) ==
  {i \in 1..Len(cs) : cs[i].path = path \/ (cs[i].slug = Str_index /\ path = <<"/">>)}

\* the Response the handler returns once the fragment of rt was fetched
ServeRoute_worker(rt, cs, mode, xfo) ==
  LET assetResponse == AssetFetch(rt.file, mode, xfo)
  IN  [components |-> cs, route |-> rt,
       calls |-> <<Call(rt.file, assetResponse)>>,
       response |-> IF assetResponse.thrown THEN Uncaught
                    ELSE serveComponent_worker(rt, cs, assetResponse)]

\* export default { fetch } of worker.js, the Component Index being cs
HandleRequest_worker(p, cs, mode, xfo) ==
  LET path == IF EndsWith(p, <<"/">>) /\ p # <<"/">> THEN Slice(p, 1, Len(p) - 1) ELSE p
      matches == RouteMatches(cs, path)
  IN  IF matches # {}
      THEN ServeRoute_worker(cs[CHOOSE i \in matches : \A j \in matches : i <= j],
                             cs, mode, xfo)
      ELSE IF ~hasFileExtension(path)
      THEN LET slug == IF path = <<"/">> THEN Str_index ELSE Slice(path, 2, Len(path))
               fallbackRoute ==
                 [slug |-> slug, path |-> path,
                  title |-> IF slug = Str_index THEN Str_IndexTitle ELSE slugToTitle(slug),
                  file |-> Str_components_dir \o slug \o Str_html]
           IN  ServeRoute_worker(fallbackRoute, cs, mode, xfo)
      ELSE LET asset == AssetFetch(p, mode, xfo)
           IN  [components |-> cs, route |-> NoRoute,
                calls |-> <<Call(p, asset)>>,
                response |-> IF asset.thrown THEN Uncaught ELSE AsResponse(asset)]

---------------------------------------------------------------------------
(* src/unnamed/part_002: index.ts with the legacy manifest as a fallback *)

RECURSIVE InsertSlug(_, _)
InsertSlug(ss, sl) ==
  IF ss = <<>> THEN <<sl>>
  ELSE IF localeCompare(Head(ss), sl) <= 0
       THEN <<Head(ss)>> \o InsertSlug(Tail(ss), sl)
  ELSE <<sl>> \o ss

RECURSIVE SortSlugs(_)
\* Array.prototype.sort((a, b) => a.localeCompare(b)) on the slugs
SortSlugs(ss) ==
  IF ss = <<>> THEN <<>>
  ELSE InsertSlug(SortSlugs(SubSeq(ss, 1, Len(ss) - 1)), ss[Len(ss)])

\* step 2 of discoverComponents: the slugs of the legacy manifest, sorted
LegacySlugs(env) ==
  LET keys == IF env.kind = "keys" THEN SelectSeq(env.keys, IsComponentKey) ELSE <<>>
  IN  SortSlugs([i \in 1..Len(keys) |-> SlugOfKey(keys[i])])

discoverComponents_part_002(m, env) ==
  IF m.kind = "slugs"
  THEN SortByTitle(MapToMeta(m.slugs))
  ELSE IF Len(LegacySlugs(env)) > 0
  THEN MapToMeta(LegacySlugs(env))
  ELSE <<toMeta(Str_index)>>

renderHtml_part_002(title, body) ==
  <<Html_doctype, "\n<html lang=\"en\">\n<head>\n<meta charset/><meta viewport/>\n",
    Html_title_open>>
  \o title
  \o <<Html_title_close, "\n<link bootstrap.min.css/>\n",
       "<link rel=\"stylesheet\" href=\"/brand-tokens.css\"/>",
       "\n</head>\n<body class=\"container my-4\">\n">>
  \o body
  \o <<"\n<script bootstrap.bundle.min.js></script>\n</body></html>">>

Html_href_open_part_002 == "</div></div>\n  <a class=\"btn\" href=\""
Html_href_close_part_002 == "\">View</a>\n</li>"

ListRow_part_002(c) ==
  <<"<li class=\"list-group-item\">\n  <div><div class=\"fw-semibold\">">>
  \o c.title
  \o <<"</div><div class=\"text-muted small\">">>
  \o c.path
  \o <<Html_href_open_part_002>>
  \o c.path
  \o <<Html_href_close_part_002>>

\* the filter callback of renderComponentList, line 95
NotIndex_part_002(c) == c.slug # Str_index

\* renderComponentList: filter, map, join; the entries are not sorted again
renderComponentList_part_002(cs) ==
  LET kept == SelectSeq(cs, NotIndex_part_002)
      items == Concat([i \in 1..Len(kept) |-> ListRow_part_002(kept[i])])
  IN  IF items = <<>>
      THEN <<"<div class=\"alert alert-info\" role=\"status\">No components listed yet.</div>">>
      ELSE <<"<div class=\"card\"><div class=\"card-body\"><ul class=\"list-group\">">>
           \o items \o <<"</ul></div></div>">>

\* serveComponent once the fragment fetch has answered with fragmentRes; a
\* Response built without a status has status 200
serveComponent_part_002(rt, cs, fragmentRes) ==
  IF ~fragmentRes.ok
  THEN NewResponse(NotFoundBody(rt.file), 404, "text/plain; charset=utf-8")
  ELSE LET frag == IF rt.slug = Str_index
                   THEN injectComponentList(fragmentRes.body,
                                            renderComponentList_part_002(cs))
                   ELSE fragmentRes.body
       IN  NewResponse(renderHtml_part_002(rt.title, frag), 200, "text/html; charset=utf-8")

\* export default { fetch } of part_002, lines 9-32
HandleRequest_part_002(p, mode, xfo) ==
  LET path == normalizePath(p)
      slug == SlugOfPath(path)
      cs == discoverComponents_part_002(manifest, legacy)
      rt == FindRoute(cs, slug)
      fragmentRes == AssetFetch(rt.file, mode, xfo)
      asset == AssetFetch(p, mode, xfo)
  IN  IF ~hasFileExtension(path)
      THEN [components |-> cs, route |-> rt,
            calls |-> <<[path |-> ManifestFile, status |-> ManifestStatus(manifest)],
                        Call(rt.file, fragmentRes)>>,
            response |->
              IF fragmentRes.thrown THEN InternalError(ErrorMessage)
              ELSE withSecurityHeaders(serveComponent_part_002(rt, cs, fragmentRes))]
      ELSE [components |-> <<>>, route |-> NoRoute,
            calls |-> <<Call(p, asset)>>,
            response |->
              IF asset.thrown THEN InternalError(ErrorMessage)
              ELSE withSecurityHeaders(AsResponse(asset))]

---------------------------------------------------------------------------
(* The requests and the Asset Store contents the model draws from *)

SeqsUpTo(S, n) == UNION {[1..k -> S] : k \in 0..n}

\* url.pathname: "/" followed by up to MaxPathPieces of these pieces
PathPieces == {<<"/">>, <<"a">>, <<".", "a">>}
Paths == {<<"/">> \o Concat(ps) : ps \in SeqsUpTo(PathPieces, MaxPathPieces)}

\* slugs the generated manifest may list: "index", "a" and the dotted "a.a"
RouteSlugs == {Str_index, <<"a">>, <<"a", ".", "a">>}

Manifests ==
  {[kind |-> k, slugs |-> <<>>] : k \in ManifestKinds \ {"slugs"}}
  \cup {[kind |-> "slugs", slugs |-> ss] : ss \in SeqsUpTo(RouteSlugs, MaxManifest)}

NoLegacy == [kind |-> "absent", keys |-> <<>>]

\* files the Asset Store may hold: the fragments of RouteSlugs and the asset /a.a
StoreFiles ==
  {Str_components_dir \o sl \o Str_html : sl \in RouteSlugs} \cup {<<"/", "a", ".", "a">>}

IndexBodies == {<<"h">>, <<"h", Marker, "t">>}

\* nothing handled yet
NothingHandled ==
  /\ ran = ""
  /\ reqPath = <<>>
  /\ reqStore = <<"normal", Absent>>
  /\ components = <<>>
  /\ route = NoRoute
  /\ calls = <<>>
  /\ response = NoResponse
  /\ componentCache = Unset
  /\ nreq = 0
  /\ manifestFetches = 0

\* nothing handled yet, nothing injected yet
Idle ==
  /\ NothingHandled
  /\ fragment = <<>>
  /\ listHtml = <<>>
  /\ injected = <<>>
  /\ res = NoResponse
  /\ inflight = <<>>

Init ==
  /\ manifest \in Manifests
  /\ legacy = NoLegacy
  /\ present \in SUBSET StoreFiles
  /\ indexBody \in IndexBodies
  /\ Idle

\* the fetches of `path` among the calls cs
FetchesOf(cs, path) == Cardinality({i \in 1..Len(cs) : cs[i].path = path})

\* src/src/index.ts handles the request for pathname p
Fetch(p, mode, xfo) ==
  \E r \in {HandleRequest(p, mode, xfo)} :
      /\ ran' = "index.ts"
      /\ reqPath' = p
      /\ reqStore' = <<mode, xfo>>
      /\ components' = r.components
      /\ route' = r.route
      /\ calls' = r.calls
      /\ response' = r.response
      /\ nreq' = nreq + 1
      /\ manifestFetches' = manifestFetches + FetchesOf(r.calls, ManifestFile)
      /\ UNCHANGED <<manifest, legacy, present, indexBody, componentCache,
                     fragment, listHtml, injected, res, inflight>>

\* src/src/index.ts keeps nothing between requests: every request meets the
\* state of a fresh process, so one request per behaviour covers them all
Next ==
  /\ nreq = 0
  /\ \E p \in Paths, a \in StoreAnswers : Fetch(p, a[1], a[2])

Spec == Init /\ [][Next]_vars


---------------------------------------------------------------------------
(* Processes that handle several requests *)

\* request paths for the specifications that follow a process over several
\* requests: the root, a slug with and without trailing slash, a dotted slug,
\* a hidden file
RequestSample ==
  {<<"/">>, <<"/", "a">>, <<"/", "a", "/">>, <<"/", "a", ".", "a">>, <<"/", ".", "a">>}

\* Asset Store contents for them: empty, the index fragment alone, every
\* fragment, every file, and the index fragment beside a file /a that has no
\* extension and no fragment
SampleStores ==
  {{}, {IndexFile}, StoreFiles \ {<<"/", "a", ".", "a">>}, StoreFiles,
   {IndexFile, <<"/", "a">>}}

DistinctSeqs(S, n) ==
  {q \in SeqsUpTo(S, n) : \A i, j \in 1..Len(q) : i # j => q[i] # q[j]}

KeyOf(slug) == Str_components \o slug \o Str_html

\* legacy manifests whose keys are drawn from `keys`; the keys of an object
\* are distinct
LegaciesOver(keys) ==
  {[kind |-> k, keys |-> <<>>] : k \in LegacyKinds \ {"keys"}}
  \cup {[kind |-> "keys", keys |-> ks] : ks \in DistinctSeqs(keys, MaxManifest)}

\* keys of the legacy manifest: the fragments of RouteSlugs, the hidden
\* components/.a.html and a.html outside components/
WorkerKeys ==
  {KeyOf(sl) : sl \in RouteSlugs} \cup {KeyOf(<<".", "a">>), <<"a">> \o Str_html}

NoManifest == [kind |-> "notok", slugs |-> <<>>]

\* src/src/index.ts, one process handling up to MaxRequests requests
InitProcess ==
  /\ manifest \in Manifests
  /\ legacy = NoLegacy
  /\ present \in SampleStores
  /\ indexBody \in IndexBodies
  /\ Idle

NextProcess ==
  /\ nreq < MaxRequests
  /\ \E p \in RequestSample, a \in StoreAnswers : Fetch(p, a[1], a[2])

SpecProcess == InitProcess /\ [][NextProcess]_vars

\* src/src/worker.js handles the request for pathname p
FetchWorker(p, mode, xfo) ==
  \E cs \in {discoverComponents_worker(componentCache, legacy)} :
    \E r \in {HandleRequest_worker(p, cs, mode, xfo)} :
      /\ ran' = "worker.js"
      /\ reqPath' = p
      /\ reqStore' = <<mode, xfo>>
      /\ componentCache' = cacheAfterDiscover(componentCache, legacy)
      /\ components' = r.components
      /\ route' = r.route
      /\ calls' = r.calls
      /\ response' = r.response
      /\ nreq' = nreq + 1
      /\ UNCHANGED <<manifest, legacy, present, indexBody, manifestFetches,
                     fragment, listHtml, injected, res, inflight>>

\* src/src/worker.js, one process handling up to MaxRequests requests
InitWorker ==
  /\ manifest = NoManifest
  /\ legacy \in LegaciesOver(WorkerKeys)
  /\ present \in SampleStores
  /\ indexBody \in IndexBodies
  /\ Idle

NextWorker ==
  /\ nreq < MaxRequests
  /\ \E p \in RequestSample, a \in StoreAnswers : FetchWorker(p, a[1], a[2])

SpecWorker == InitWorker /\ [][NextWorker]_vars

---------------------------------------------------------------------------
(* One request to src/src/index.ts or to src/unnamed/part_002, whatever the   *)
(* generated manifest and the legacy manifest are                             *)

\* src/unnamed/part_002 handles the request for pathname p
FetchPart002(p, mode, xfo) ==
  \E r \in {HandleRequest_part_002(p, mode, xfo)} :
      /\ ran' = "part_002"
      /\ reqPath' = p
      /\ reqStore' = <<mode, xfo>>
      /\ components' = r.components
      /\ route' = r.route
      /\ calls' = r.calls
      /\ response' = r.response
      /\ nreq' = nreq + 1
      /\ manifestFetches' = manifestFetches + FetchesOf(r.calls, ManifestFile)
      /\ UNCHANGED <<manifest, legacy, present, indexBody, componentCache,
                     fragment, listHtml, injected, res, inflight>>

\* keys of the legacy manifest: one fragment and one file outside components/
ManifestKeys == {KeyOf(<<"a">>), <<"a">> \o Str_html}

InitManifest ==
  /\ manifest \in Manifests
  /\ legacy \in LegaciesOver(ManifestKeys)
  /\ present \in SampleStores
  /\ indexBody \in IndexBodies
  /\ Idle

NextManifest ==
  \/ /\ nreq = 0
     /\ \E p \in RequestSample, a \in StoreAnswers : Fetch(p, a[1], a[2])
  \/ /\ nreq = 0
     /\ \E p \in RequestSample, a \in StoreAnswers : FetchPart002(p, a[1], a[2])

SpecManifest == InitManifest /\ [][NextManifest]_vars

---------------------------------------------------------------------------
(* The home page, asked of either Worker *)

HomePaths == {<<"/">>, <<"/">> \o Str_index}

InitHome ==
  /\ manifest \in Manifests
  /\ legacy \in LegaciesOver(WorkerKeys)
  /\ present \in {{}, {IndexFile}}
  /\ indexBody \in IndexBodies
  /\ Idle

NextHome ==
  \/ /\ nreq = 0
     /\ \E p \in HomePaths, a \in StoreAnswers : Fetch(p, a[1], a[2])
  \/ /\ nreq = 0
     /\ \E p \in HomePaths, a \in StoreAnswers : FetchWorker(p, a[1], a[2])

SpecHome == InitHome /\ [][NextHome]_vars

---------------------------------------------------------------------------
(* discoverComponents on its own, in its three versions *)

\* slugs whose titles order differently from the slugs themselves (c, index)
\* or are equal (a, A)
TitleSlugs == {Str_index, <<"a">>, <<"A">>, <<"c">>}

TitleManifests ==
  {[kind |-> k, slugs |-> <<>>] : k \in ManifestKinds \ {"slugs"}}
  \cup {[kind |-> "slugs", slugs |-> ss] : ss \in SeqsUpTo(TitleSlugs, MaxManifest)}

TitleKeys == {KeyOf(sl) : sl \in TitleSlugs} \cup {KeyOf(<<".", "a">>)}

InitDiscover ==
  /\ manifest \in TitleManifests
  /\ legacy \in LegaciesOver(TitleKeys)
  /\ present = {}
  /\ indexBody = <<"h">>
  /\ Idle

Discovered(version, cs, fetched) ==
  /\ ran = ""
  /\ ran' = version
  /\ components' = cs
  /\ calls' = IF fetched
              THEN <<[path |-> ManifestFile, status |-> ManifestStatus(manifest)]>>
              ELSE <<>>
  /\ manifestFetches' = manifestFetches + (IF fetched THEN 1 ELSE 0)
  /\ UNCHANGED <<manifest, legacy, present, indexBody, reqPath, reqStore, route,
                 response, nreq, fragment, listHtml, injected, res, inflight>>

Discover_index_ts ==
  /\ Discovered("index.ts", discoverComponents(manifest), TRUE)
  /\ UNCHANGED componentCache

Discover_part_002 ==
  /\ Discovered("part_002", discoverComponents_part_002(manifest, legacy), TRUE)
  /\ UNCHANGED componentCache

Discover_worker_js ==
  /\ Discovered("worker.js", discoverComponents_worker(componentCache, legacy), FALSE)
  /\ componentCache' = cacheAfterDiscover(componentCache, legacy)

NextDiscover ==
  \/ Discover_index_ts
  \/ Discover_part_002
  \/ Discover_worker_js

SpecDiscover == InitDiscover /\ [][NextDiscover]_vars

---------------------------------------------------------------------------
(* injectComponentList on its own *)

FragmentChars == {"h", "t", Marker}
ListChars == {"l", "$", "&", GraveAccent, "'"}

InitInject ==
  /\ manifest = NoManifest
  /\ legacy = NoLegacy
  /\ present = {}
  /\ indexBody = <<"h">>
  /\ NothingHandled
  /\ fragment \in SeqsUpTo(FragmentChars, MaxText)
  /\ listHtml \in SeqsUpTo(ListChars, MaxText)
  /\ injected = <<>>
  /\ res = NoResponse
  /\ inflight = <<>>

Injected(version, result) ==
  /\ ran = ""
  /\ ran' = version
  /\ injected' = result
  /\ UNCHANGED <<manifest, legacy, present, indexBody, reqPath, reqStore, components,
                 route, calls, response, componentCache, nreq, manifestFetches,
                 fragment, listHtml, res, inflight>>

Inject_index_ts == Injected("index.ts", injectComponentList(fragment, listHtml))

Inject_worker_js == Injected("worker.js", injectComponentList_worker(fragment, listHtml))

NextInject ==
  \/ Inject_index_ts
  \/ Inject_worker_js

SpecInject == InitInject /\ [][NextInject]_vars

---------------------------------------------------------------------------
(* withSecurityHeaders on its own.  src/src/index.ts and src/unnamed/part_002 *)
(* hold the same function, statement for statement.                           *)

\* the responses withSecurityHeaders is given: any status, with or without a
\* status text and a body, any of the headers already set or not
ResponseStatuses == {200, 404, 500}
ResponseTexts == {"", "Not Found"}
ResponseBodies == {<<>>, <<"b">>}
Responses ==
  [status : ResponseStatuses, statusText : ResponseTexts, body : ResponseBodies,
   headers : [HeaderNames -> {Absent, "v"}]]

InitHeaders ==
  /\ manifest = NoManifest
  /\ legacy = NoLegacy
  /\ present = {}
  /\ indexBody = <<"h">>
  /\ NothingHandled
  /\ fragment = <<>>
  /\ listHtml = <<>>
  /\ injected = <<>>
  /\ res \in Responses
  /\ inflight = <<>>

Finalized(version) ==
  /\ ran = ""
  /\ ran' = version
  /\ response' = withSecurityHeaders(res)
  /\ UNCHANGED <<manifest, legacy, present, indexBody, reqPath, reqStore, components,
                 route, calls, componentCache, nreq, manifestFetches,
                 fragment, listHtml, injected, res, inflight>>

Finalize_index_ts == Finalized("index.ts")

Finalize_part_002 == Finalized("part_002")

NextHeaders ==
  \/ Finalize_index_ts
  \/ Finalize_part_002

SpecHeaders == InitHeaders /\ [][NextHeaders]_vars

---------------------------------------------------------------------------
(* src/src/worker.js handling requests concurrently.  A handler runs without *)
(* interruption up to its next await: the fetch of the Asset Store (line 175 *)
(* or 130), then the reading of the fragment (line 189).                     *)

RequestIds == 1..MaxRequests

NoAsset ==
  [thrown |-> FALSE, ok |-> FALSE, status |-> 0, statusText |-> "",
   headers |-> NoHeaders, body |-> <<>>]

\* a request not yet received
IdleRequest ==
  [pc |-> "idle", path |-> <<>>, components |-> <<>>, route |-> NoRoute,
   asset |-> NoAsset, response |-> NoResponse]

\* fetch, lines 85-119: the route of pathname p, NoRoute when the request is
\* passed to the Asset Store
RouteOf_worker(cs, p) ==
  LET path == IF EndsWith(p, <<"/">>) /\ p # <<"/">> THEN Slice(p, 1, Len(p) - 1) ELSE p
      matches == RouteMatches(cs, path)
      slug == IF path = <<"/">> THEN Str_index ELSE Slice(path, 2, Len(path))
  IN  IF matches # {}
      THEN cs[CHOOSE i \in matches : \A j \in matches : i <= j]
      ELSE IF ~hasFileExtension(path)
      THEN [slug |-> slug, path |-> path,
            title |-> IF slug = Str_index THEN Str_IndexTitle ELSE slugToTitle(slug),
            file |-> Str_components_dir \o slug \o Str_html]
      ELSE NoRoute

ConcurrentPaths == {<<"/">>, <<"/", "a">>, <<"/", "a", ".", "a">>}
ConcurrentAnswers == {<<"normal", Absent>>, <<"reject", Absent>>}
ConcurrentKeys == {KeyOf(Str_index), KeyOf(<<"a">>)}

OtherVarsUnchanged ==
  UNCHANGED <<manifest, legacy, present, indexBody, ran, reqPath, reqStore, components,
              route, calls, response, manifestFetches, fragment, listHtml, injected,
              res>>

\* request r arrives for pathname p: the handler runs to its first await
Start(r, p) ==
  /\ inflight[r].pc = "idle"
  /\ componentCache' = cacheAfterDiscover(componentCache, legacy)
  /\ \E cs \in {discoverComponents_worker(componentCache, legacy)} :
       inflight' = [inflight EXCEPT ![r] =
                      [pc |-> "fetch", path |-> p, components |-> cs,
                       route |-> RouteOf_worker(cs, p),
                       asset |-> NoAsset, response |-> NoResponse]]
  /\ nreq' = nreq + 1
  /\ OtherVarsUnchanged

\* the Asset Store answers the fetch request r waits for
Answer(r, mode, xfo) ==
  /\ inflight[r].pc = "fetch"
  /\ LET q == inflight[r]
         a == AssetFetch(IF q.route = NoRoute THEN q.path ELSE q.route.file, mode, xfo)
     IN  inflight' = [inflight EXCEPT ![r] =
           IF a.thrown THEN [q EXCEPT !.pc = "done", !.response = Uncaught]
           ELSE IF q.route = NoRoute
           THEN [q EXCEPT !.pc = "done", !.asset = a, !.response = AsResponse(a)]
           ELSE IF ~a.ok
           THEN [q EXCEPT !.pc = "done", !.asset = a,
                          !.response = serveComponent_worker(q.route, q.components, a)]
           ELSE [q EXCEPT !.pc = "read", !.asset = a]]
  /\ UNCHANGED <<componentCache, nreq>>
  /\ OtherVarsUnchanged

\* the fragment of request r has been read: the page is composed.  The
\* listing is made from components.filter(...), a new array, which
\* renderComponentList sorts in place; the array in componentCache is not
\* touched
Compose(r) ==
  /\ inflight[r].pc = "read"
  /\ LET q == inflight[r]
     IN  inflight' = [inflight EXCEPT ![r] =
           [q EXCEPT !.pc = "done",
                     !.response = serveComponent_worker(q.route, q.components, q.asset)]]
  /\ UNCHANGED <<componentCache, nreq>>
  /\ OtherVarsUnchanged

InitConcurrent ==
  /\ manifest = NoManifest
  /\ legacy \in LegaciesOver(ConcurrentKeys)
  /\ present \in {{IndexFile}, {IndexFile, Str_components_dir \o <<"a">> \o Str_html}}
  /\ indexBody \in IndexBodies
  /\ NothingHandled
  /\ fragment = <<>>
  /\ listHtml = <<>>
  /\ injected = <<>>
  /\ res = NoResponse
  /\ inflight = [r \in RequestIds |-> IdleRequest]

NextConcurrent ==
  \/ \E r \in RequestIds, p \in ConcurrentPaths : Start(r, p)
  \/ \E r \in RequestIds, a \in ConcurrentAnswers : Answer(r, a[1], a[2])
  \/ \E r \in RequestIds : Compose(r)

SpecConcurrent == InitConcurrent /\ [][NextConcurrent]_vars

---------------------------------------------------------------------------
(* What the claims speak of, said without the handler's own helpers *)

\* a request was handled
Handled == nreq > 0

\* p without one trailing slash, the root left alone
TrimSlash(p) == IF Len(p) > 1 /\ p[Len(p)] = "/" THEN SubSeq(p, 1, Len(p) - 1) ELSE p

\* q ends in "." followed by one or more alphanumerics
EndsInExtension(q) ==
  \E k \in 1..(Len(q) - 1) :
    /\ q[Len(q) - k] = "."
    /\ \A j \in (Len(q) - k + 1)..Len(q) : q[j] \in AlnumChars

\* the slug an extensionless request path names
SlugNamedBy(p) ==
  IF TrimSlash(p) = <<"/">> THEN Str_index ELSE SubSeq(TrimSlash(p), 2, Len(TrimSlash(p)))

PublicPathOf(slug) == IF slug = Str_index THEN <<"/">> ELSE <<"/">> \o slug
CanonicalFileOf(slug) == Str_components_dir \o slug \o Str_html

\* the Asset Store reports `file` as not ok to the last request
ReportedNotOk(file) ==
  \/ reqStore[1] = "error"
  \/ reqStore[1] = "normal" /\ file \notin present

\* the Asset Store answered the last request as its contents say
StoreAnswered == reqStore[1] = "normal"

InIndex(cs, slug) == \E i \in 1..Len(cs) : cs[i].slug = slug

\* the document carries the shell: doctype, title element, stylesheet link
HasShell(doc, title) ==
  /\ Len(doc) > 0 /\ doc[1] = Html_doctype
  /\ Includes(doc, <<Html_title_open>> \o title \o <<Html_title_close>>)
  /\ Includes(doc, <<Html_stylesheet>>)

---------------------------------------------------------------------------
(* Claims about src/src/index.ts handling one request (Spec) *)

\* C1: every response the handler returns - wrapped page, component 404,
\* passthrough response of any status, 500 - carries the fixed
\* Content-Security-Policy header and X-Frame-Options: DENY.
C1_SecurityHeadersOnEveryResponse ==
  Handled =>
    /\ response.headers["Content-Security-Policy"] = Csp
    /\ response.headers["X-Frame-Options"] = "DENY"

\* C1 witness: a passthrough response of status 200 whose Asset Store response
\* came with an X-Frame-Options of its own
C1_Witness ==
  /\ Handled
  /\ reqStore = <<"normal", "SAMEORIGIN">>
  /\ Len(calls) = 1 /\ calls[1].path = reqPath
  /\ response.status = 200
  /\ response.headers["X-Frame-Options"] = "DENY"

ServedManifestSlugs ==
  {sl \in Range(manifest.slugs) :
     /\ manifest.kind = "slugs"
     /\ reqPath = PublicPathOf(sl)
     /\ CanonicalFileOf(sl) \in present}

ShowsFragment(doc, sl) ==
  LET frag == FileBody(CanonicalFileOf(sl))
      at == IndexOf(frag, <<Marker>>)
  IN  IF sl = Str_index /\ at > 0
      THEN \E i \in 1..Len(doc), j \in 1..(Len(doc) + 1) :
             /\ i + (at - 1) <= j
             /\ SubSeq(doc, i, i + at - 2) = SubSeq(frag, 1, at - 1)
             /\ SubSeq(doc, j, j + (Len(frag) - at) - 1) = SubSeq(frag, at + 1, Len(frag))
             /\ j + (Len(frag) - at) - 1 <= Len(doc)
      ELSE Includes(doc, frag)

WithSlash == HandleRequest(reqPath \o <<"/">>, reqStore[1], reqStore[2])

SameOutcome(r) ==
  /\ r.route.slug = route.slug
  /\ r.response.status = response.status
  /\ r.response.body = response.body

\* C5 as claimed: for every request path p, the request for p with one
\* trailing slash appended resolves to the same slug and produces the same
\* response (status and body) as the request for p.
C5_Original == Handled => SameOutcome(WithSlash)

\* C5 as amended: for every request path p that is "/" or does not end in "/",
\* and that does not end in a file extension, the request for p with one
\* trailing slash appended resolves to the same slug and produces the same
\* response (status and body) as the request for p.
C5_TrailingSlashIsEquivalent ==
  ( /\ Handled
    /\ reqPath = <<"/">> \/ reqPath[Len(reqPath)] # "/"
    /\ ~EndsInExtension(reqPath) )
  => SameOutcome(WithSlash)

\* C5 witness: /a served as a page, and /a/ served the same
C5_Witness ==
  /\ Handled
  /\ reqPath = <<"/", "a">>
  /\ response.status = 200
  /\ route.slug = <<"a">>
  /\ SameOutcome(WithSlash)

\* C6: when the generated manifest is fetched successfully and is [], the
\* Component Index is exactly the one entry for slug index, and "/" is still
\* answered 200 when the index fragment exists.
C6_EmptyManifestYieldsIndexEntry ==
  ( /\ Handled
    /\ manifest = [kind |-> "slugs", slugs |-> <<>>]
    /\ ~EndsInExtension(TrimSlash(reqPath)) )
  =>
    /\ Len(components) = 1
    /\ components[1].slug = Str_index
    /\ (reqPath = <<"/">> /\ StoreAnswered /\ IndexFile \in present)
         => response.status = 200

---------------------------------------------------------------------------
(* Claims about src/src/worker.js over several requests (SpecWorker) *)

\* C2: for every request whose normalized path ends in "." followed by one or
\* more alphanumerics, whatever the manifest lists, the handler loads and wraps
\* no component fragment: the Asset Store is asked for the original request
\* only and its answer is the response.
C2_ExtensionPathIsPassthrough ==
  (Handled /\ EndsInExtension(TrimSlash(reqPath))) =>
    /\ Len(calls) = 1
    /\ calls[1].path = reqPath
    /\ route = NoRoute
    /\ (StoreAnswered /\ reqPath \in present) => response.body = FileBody(reqPath)
    /\ (StoreAnswered /\ reqPath \notin present) => response.status = 404

---------------------------------------------------------------------------
(* Claims about the home page of either Worker (SpecHome) *)

\* the response body holds a listing row whose link goes to "/"
LinksToRoot ==
  \/ Includes(response.body, <<Html_href_open, "/", Html_href_close>>)
  \/ Includes(response.body, <<Html_href_open_worker, "/", Html_href_close_worker>>)

\* C7: whatever the manifest lists, index several times included, the listing
\* composed for the home page has no row for slug index: no row links to "/".
C7_HomeListingOmitsIndex == Handled => ~LinksToRoot

\* C7 witness: index.ts serves the home page from an index fragment that holds
\* the marker, the manifest listing index twice
C7_Witness ==
  /\ Handled
  /\ ran = "index.ts"
  /\ manifest = [kind |-> "slugs", slugs |-> <<Str_index, Str_index>>]
  /\ Len(components) = 2
  /\ route.slug = Str_index
  /\ response.status = 200
  /\ Includes(indexBody, <<Marker>>)
  /\ ~Includes(response.body, <<Marker>>)
  /\ ~LinksToRoot

---------------------------------------------------------------------------
(* Claims about injectComponentList (SpecInject) *)

\* C8: injectComponentList returns, for a fragment that holds the marker, the
\* fragment with exactly one occurrence of the marker replaced by the listing
\* exactly as given and everything else unchanged; for a fragment without the
\* marker, the fragment followed by the listing.
C8_InjectReplacesOnceOrAppends ==
  (ran # "") =>
    IF Includes(fragment, <<Marker>>)
    THEN \E at \in 1..Len(fragment) :
           /\ fragment[at] = Marker
           /\ injected = SubSeq(fragment, 1, at - 1) \o listHtml
                         \o SubSeq(fragment, at + 1, Len(fragment))
    ELSE injected \in {fragment \o listHtml, fragment \o <<"\n">> \o listHtml}

---------------------------------------------------------------------------
(* Claims about src/src/index.ts over several requests (SpecProcess) *)

\* C9: within one process the Component Index is computed once: after the
\* first request that needed it, no later request fetches the manifest from
\* the Asset Store again, so the process fetches it at most once.
C9_IndexComputedOnce == manifestFetches <= 1

---------------------------------------------------------------------------
(* Claims about discoverComponents in its three versions (SpecDiscover) *)

\* the slugs of the source the Component Index was built from, in the order
\* the source gives them
SourceSlugs ==
  LET keys == IF legacy.kind = "keys" THEN SelectSeq(legacy.keys, IsComponentKey) ELSE <<>>
      legacySlugs == [i \in 1..Len(keys) |-> SlugOfKey(keys[i])]
  IN  IF ran = "worker.js" THEN legacySlugs
      ELSE IF manifest.kind = "slugs" THEN manifest.slugs
      ELSE IF ran = "part_002" /\ legacySlugs # <<>> THEN legacySlugs
      ELSE <<Str_index>>

OrderedByTitle(cs) ==
  \A i, j \in 1..Len(cs) : i < j => localeCompare(cs[i].title, cs[j].title) <= 0

\* the entries of one title come in the order the source has their slugs
KeepsSourceOrder(cs, source) ==
  \A k \in 1..Len(cs) :
    LET HasTitle(sl) == \E i \in 1..Len(cs) : cs[i].slug = sl /\ cs[i].title = cs[k].title
    IN  SelectSeq([i \in 1..Len(cs) |-> cs[i].slug], HasTitle) = SelectSeq(source, HasTitle)

\* C10: whatever source the Component Index is built from - generated
\* manifest, legacy key-listing manifest, synthetic default - the sequence
\* discoverComponents returns is ordered by title, and entries of equal titles
\* keep the relative order they had in the source.
C10_IndexOrderedByTitleStably ==
  (ran # "") =>
    /\ OrderedByTitle(components)
    /\ KeepsSourceOrder(components, SourceSlugs)

---------------------------------------------------------------------------
(* Claims about what is not a component route *)

\* p is a component route: "/" or the public path of a fragment that the
\* Asset Store holds under /components/
IsComponentRoute(p) ==
  \/ TrimSlash(p) = <<"/">>
  \/ CanonicalFileOf(SlugNamedBy(p)) \in present

\* C11: a request for anything other than a component route is served from the
\* Asset Store: the last fetch is the original request and the response is the
\* store's answer to it, extensionless paths that name an asset included.
C11_OtherPathsArePassedThrough ==
  (Handled /\ ~IsComponentRoute(reqPath)) =>
    /\ calls # <<>>
    /\ calls[Len(calls)].path = reqPath
    /\ (StoreAnswered /\ reqPath \in present) =>
         (response.status = 200 /\ response.body = FileBody(reqPath))
    /\ (StoreAnswered /\ reqPath \notin present) => response.status = 404

---------------------------------------------------------------------------
(* Claims about failures *)

\* C12: nothing propagates past the request handler: when a fetch of the Asset
\* Store throws while a request is handled, the handler still returns a
\* response, of status 500, in plain text, whose body is the generic message
\* "Internal Error" followed by the error's detail.
C12_FailuresBecome500 ==
  (Handled /\ reqStore[1] = "reject") =>
    /\ response.status = 500
    /\ response.headers["Content-Type"] = "text/plain; charset=utf-8"
    /\ response.body = <<"Internal Error\n\n">> \o ErrorMessage

---------------------------------------------------------------------------
(* Claims about withSecurityHeaders (SpecHeaders) *)

\* C13: withSecurityHeaders is a pure header overlay: its result has the
\* status, the status text and the body of its argument, and the argument's
\* value for every header other than the six security headers.
C13_SecurityHeadersAreAnOverlay ==
  (ran # "") =>
    /\ response.status = res.status
    /\ response.statusText = res.statusText
    /\ response.body = res.body
    /\ \A h \in HeaderNames \ SecurityHeaderNames : response.headers[h] = res.headers[h]

\* C13 witness: a 404 with status text, body, an ETag and an X-Frame-Options
\* of its own came back with X-Frame-Options overwritten and the rest kept
C13_Witness ==
  /\ ran # ""
  /\ res.status = 404 /\ res.statusText = "Not Found" /\ res.body = <<"b">>
  /\ res.headers["ETag"] = "v" /\ res.headers["X-Frame-Options"] = "v"
  /\ response.headers["ETag"] = "v"
  /\ response.headers["X-Frame-Options"] = "DENY"
  /\ response.statusText = "Not Found"

---------------------------------------------------------------------------
(* Claims about the manifest being of no use (SpecManifest) *)

\* the single entry for slug index
IndexEntry ==
  [slug |-> Str_index, path |-> <<"/">>, title |-> Str_IndexTitle, file |-> IndexFile]

\* the generated manifest is missing, unreachable or malformed and there is no
\* legacy manifest to read
ManifestUnusable == manifest.kind # "slugs" /\ legacy.kind # "keys"

\* C14: when the manifest fetch throws, is not ok, yields unparseable JSON or
\* JSON that is no array of strings, and no legacy manifest is available,
\* discoverComponents returns exactly the single entry for slug index, and the
\* request is answered as with that index: 200 when the fragment is there, 404
\* when it is not, never 500 because of the manifest.
C14_UnusableManifestIsNotFatal ==
  (Handled /\ ~EndsInExtension(TrimSlash(reqPath)) /\ ManifestUnusable) =>
    /\ components = <<IndexEntry>>
    /\ StoreAnswered =>
         response.status =
           IF CanonicalFileOf(SlugNamedBy(reqPath)) \in present THEN 200 ELSE 404
    /\ reqStore[1] = "error" => response.status = 404
    /\ response.status = 500 => reqStore[1] = "reject"

\* C14 witness: part_002 serves the home page although the generated manifest
\* does not parse and the legacy manifest does not either
C14_Witness ==
  /\ Handled
  /\ ran = "part_002"
  /\ manifest.kind = "badjson"
  /\ legacy.kind = "invalid"
  /\ reqPath = <<"/">>
  /\ components = <<IndexEntry>>
  /\ response.status = 200
  /\ response.body[1] = Html_doctype

---------------------------------------------------------------------------
(* More claims about discoverComponents (SpecDiscover) *)

\* C15: in every Component Index discoverComponents returns, whatever the
\* manifest holds, no two entries have the same slug.
C15_SlugsAreUnique ==
  (ran # "") =>
    \A i, j \in 1..Len(components) : i # j => components[i].slug # components[j].slug

---------------------------------------------------------------------------
(* Claims about the fetches of src/src/index.ts for one request (Spec) *)

\* the fetches of the last request that load a fragment: those that are
\* neither the manifest fetch nor the passthrough of the request itself
FragmentFetches ==
  {i \in 1..Len(calls) : calls[i].path # ManifestFile /\ calls[i].path # reqPath}

\* C16: every fragment fetch the handler issues is for the canonical file of
\* the resolved component, /components/<slug>.html with slug index for the
\* root path and the normalized path without its leading slash otherwise, so
\* it is under /components/ and ends in .html.
C16_FragmentFetchIsCanonical ==
  Handled =>
    \A i \in FragmentFetches :
      /\ calls[i].path = Str_components_dir \o SlugNamedBy(reqPath) \o Str_html
      /\ calls[i].path = route.file
      /\ route.slug = SlugNamedBy(reqPath)

\* C16 witness: /a/ made the handler fetch /components/a.html, which the
\* manifest lists and the store holds
C16_Witness ==
  /\ Handled
  /\ reqPath = <<"/", "a", "/">>
  /\ manifest.kind = "slugs" /\ <<"a">> \in Range(manifest.slugs)
  /\ FragmentFetches = {2}
  /\ calls[2].path = <<"/">> \o Str_components \o <<"a">> \o Str_html
  /\ calls[2].status = 200

\* C17: the Asset Store calls of a request come in a fixed order, none
\* repeated: an extensionless path causes one manifest fetch, then one fragment
\* fetch, and the response follows both; a path with a file extension causes
\* one passthrough fetch and no manifest or fragment fetch.
C17_FetchesInFixedOrder ==
  Handled =>
    IF EndsInExtension(TrimSlash(reqPath))
    THEN /\ Len(calls) = 1
         /\ calls[1].path = reqPath
    ELSE /\ Len(calls) = 2
         /\ calls[1].path = ManifestFile
         /\ calls[2].path = CanonicalFileOf(SlugNamedBy(reqPath))
         /\ (response.status = 200) => (calls[2].status = 200)

\* C17 witness: the manifest fetch threw, the fragment fetch followed it and
\* the page was served
C17_Witness ==
  /\ Handled
  /\ reqPath = <<"/", "a">>
  /\ Len(calls) = 2
  /\ calls[1] = [path |-> ManifestFile, status |-> 0]
  /\ calls[2] = [path |-> CanonicalFileOf(<<"a">>), status |-> 200]
  /\ response.status = 200

---------------------------------------------------------------------------
(* Claims about src/src/worker.js under concurrent requests (SpecConcurrent) *)

\* every request that has started holds the Component Index that is in the
\* cache, entry for entry
AllObserveTheCache(c, reqs) ==
  \A r \in DOMAIN reqs : reqs[r].pc # "idle" => reqs[r].components = c.value

\* C18: under any interleaving of concurrently handled requests, first-time
\* requests racing on a cold start included, the Component Index cache is
\* populated once and read-only afterwards: once it holds a value no step
\* assigns it again or changes its entries or their order, and every request
\* observes that one index.
C18_CacheIsPopulatedOnceThenReadOnly ==
  [][ /\ componentCache.set => componentCache' = componentCache
      /\ componentCache'.writes <= 1
      /\ AllObserveTheCache(componentCache', inflight') ]_vars

\* C18 witness: two requests started before either had its answer; one has
\* composed the home page with its listing, the other still waits, and the
\* cache was written once
C18_Witness ==
  /\ inflight # <<>>
  /\ componentCache.set /\ componentCache.writes = 1
  /\ Len(componentCache.value) = 2
  /\ inflight[1].pc = "done" /\ inflight[1].path = <<"/">>
  /\ inflight[1].response.status = 200
  /\ Includes(inflight[1].response.body, <<Html_href_open_worker, "/", "a", Html_href_close_worker>>)
  /\ inflight[2].pc = "fetch"
  /\ inflight[2].components = componentCache.value

=============================================================================
